---- MODULE Spec2Model ----
(***************************************************************************)
(* Model of src/src/benchmark.ts: runBenchmark drives numRuns calls of     *)
(* runSingleBenchmark under a watchdog (withTimeout), pauses between them  *)
(* and aggregates the collected results.  The server, the network and the  *)
(* browser's resource-timing buffer are the environment.                   *)
(*                                                                         *)
(* Time is in milliseconds and relative, as only differences of            *)
(* performance.now() are observable: a probe's clock counts the time since *)
(* its startFetchTime (its time origin, 0), a timer holds the time left    *)
(* until it fires, and Tick moves all of them together.                    *)
(*                                                                         *)
(* Numbers: JavaScript numbers are modelled as integers.  An average is    *)
(* kept exact as the fraction [n |-> sum, d |-> count]; the download       *)
(* speed is kept in whole bits per second while its comparison with the    *)
(* 1e9 limit is exact (SpeedAbove).  An optional field is <<>> when        *)
(* absent (undefined) and <<v>> when present.                              *)
(*                                                                         *)
(* The App (src/unnamed/part_002) that calls runBenchmark for every url    *)
(* of a video is modelled apart, in SpecApp, with a call of runBenchmark   *)
(* as one step.                                                            *)
(***************************************************************************)
EXTENDS Integers, Sequences, FiniteSets, TLC

VARIABLES rpc, numRuns, i, results, ret, wdTimer, pauseTimer, probe, perf,
          ticks, app

vars == <<rpc, numRuns, i, results, ret, wdTimer, pauseTimer, probe, perf,
          ticks, app>>

(***************************************************************************)
(* Program constants                                                       *)
(***************************************************************************)
maxTime == 20000
WatchdogExtra == 2000
PauseMs == 200
ResponseTimeoutMs == 5000
MinRequestTimeMs == 30
MaxSpeedBps == 1000000000

(***************************************************************************)
(* Bounds of the model                                                     *)
(***************************************************************************)
MaxRuns == 2
MaxResults == 3
MaxTicks == 1
ResourceSize == 250002
ChunkSize == 125001
\* the time since an attempt's start is counted up to MaxAge ms
MaxAge == 200

url == "u"
maxDownloadSize == 125001
NoTimer == -1
None == <<>>

Max(a, b) == IF a > b THEN a ELSE b
Min(a, b) == IF a < b THEN a ELSE b

(***************************************************************************)
(* Results                                                                 *)
(***************************************************************************)
ErrorResult(u, msg) == [status |-> "error", url |-> u, error |-> msg]

NumericKeys == {"ttfb", "totalRequestTime", "downloadTime", "downloadSize",
                "downloadSpeedBps", "dnsLookupTime", "sslTime",
                "processingTime"}
OptionalKeys == {"dnsLookupTime", "sslTime", "processingTime"}

\* r[key] ?? 0
ValueOrZero(r, key) ==
  IF key \in OptionalKeys
    THEN (IF r[key] = None THEN 0 ELSE r[key][1])
    ELSE r[key]

RECURSIVE SumKey(_, _)
SumKey(rs, key) ==
  IF Len(rs) = 0 THEN 0
  ELSE SumKey(SubSeq(rs, 1, Len(rs) - 1), key) + ValueOrZero(rs[Len(rs)], key)

\* the mean taken over the runs that have the field
getAverage_SkipAbsent(rs, key) ==
  LET present(r) == key \notin OptionalKeys \/ r[key] # None
      k == Len(SelectSeq(rs, present))
  IN [n |-> SumKey(rs, key), d |-> IF k = 0 THEN 1 ELSE k]

\* the sum divided by one more than the number of runs
getAverage_OffByOne(rs, key) == [n |-> SumKey(rs, key), d |-> Len(rs) + 1]

\* results.reduce(...) / results.length, kept as an exact fraction
getAverage(rs, key) == [n |-> SumKey(rs, key), d |-> Len(rs)]

\* url and cacheStatus taken from the last run
getAverageSuccessBenchmarkResult_LastTag(rs) ==
  [status |-> "success",
   ttfb |-> getAverage(rs, "ttfb"),
   totalRequestTime |-> getAverage(rs, "totalRequestTime"),
   downloadTime |-> getAverage(rs, "downloadTime"),
   downloadSize |-> getAverage(rs, "downloadSize"),
   downloadSpeedBps |-> getAverage(rs, "downloadSpeedBps"),
   dnsLookupTime |-> getAverage(rs, "dnsLookupTime"),
   sslTime |-> getAverage(rs, "sslTime"),
   processingTime |-> getAverage(rs, "processingTime"),
   url |-> rs[Len(rs)].url,
   cacheStatus |-> rs[Len(rs)].cacheStatus]

getAverageSuccessBenchmarkResult(rs) ==
  [status |-> "success",
   ttfb |-> getAverage(rs, "ttfb"),
   totalRequestTime |-> getAverage(rs, "totalRequestTime"),
   downloadTime |-> getAverage(rs, "downloadTime"),
   downloadSize |-> getAverage(rs, "downloadSize"),
   downloadSpeedBps |-> getAverage(rs, "downloadSpeedBps"),
   dnsLookupTime |-> getAverage(rs, "dnsLookupTime"),
   sslTime |-> getAverage(rs, "sslTime"),
   processingTime |-> getAverage(rs, "processingTime"),
   url |-> rs[1].url,
   cacheStatus |-> rs[1].cacheStatus]

IsSuccess(r) == r.status = "success"

\* the comparison ignoring the case
IsHit_AnyCase(r) == r.cacheStatus \in {"HIT", "hit", "Hit"}

IsHit(r) == r.cacheStatus = "HIT"

successResults(rs) == SelectSeq(rs, IsSuccess)
cachedResults(rs) == SelectSeq(successResults(rs), IsHit)

\* the last result returned when no run succeeded
aggregateBenchmarkResults_LastError(rs) ==
  IF Len(successResults(rs)) = 0 THEN rs[Len(rs)]
  ELSE IF Len(cachedResults(rs)) = 0
    THEN getAverageSuccessBenchmarkResult(successResults(rs))
    ELSE getAverageSuccessBenchmarkResult(cachedResults(rs))

aggregateBenchmarkResults(rs) ==
  IF Len(successResults(rs)) = 0 THEN rs[1]
  ELSE IF Len(cachedResults(rs)) = 0
    THEN getAverageSuccessBenchmarkResult(successResults(rs))
    ELSE getAverageSuccessBenchmarkResult(cachedResults(rs))

(***************************************************************************)
(* runSingleBenchmark, lines 121-198: from the coarse timestamps, the      *)
(* received byte count and the resource-timing entry (None or <<entry>>)   *)
(* to the probe's result.                                                  *)
(***************************************************************************)
\* (receivedSize * 8) / (Math.max(downloadTime, 1) / 1000), whole bits/s
downloadSpeedBps(receivedSize, downloadTime) ==
  (receivedSize * 8 * 1000) \div Max(downloadTime, 1)

\* bytes per second compared with the limit
SpeedAbove_Bytes(receivedSize, downloadTime) ==
  (receivedSize * 1000) \div Max(downloadTime, 1) > MaxSpeedBps

\* downloadSpeedBps > 1e9, decided on the exact quotient
SpeedAbove(receivedSize, downloadTime) ==
  LET num == receivedSize * 8 * 1000
      den == Max(downloadTime, 1)
  IN \/ num \div den > MaxSpeedBps
     \/ (num \div den = MaxSpeedBps /\ num % den > 0)

\* lines 127-152: the three timings before the negative-value correction
rawTimings(startFetchTime, responseStartTime, startReadTime, endFetchTime, performanceEntry) ==
  IF performanceEntry # None
    THEN LET e == performanceEntry[1]
         IN [ttfb |-> e.responseStart - e.fetchStart,
             totalRequestTime |-> e.duration,
             downloadTime |-> e.responseEnd - e.responseStart,
             dnsLookupTime |-> <<e.domainLookupEnd - e.domainLookupStart>>,
             sslTime |-> <<e.connectEnd - e.secureConnectionStart>>,
             processingTime |-> <<e.responseStart - e.connectEnd>>]
    ELSE [ttfb |-> responseStartTime - startFetchTime,
          totalRequestTime |-> endFetchTime - startFetchTime,
          downloadTime |-> endFetchTime - startReadTime,
          dnsLookupTime |-> None,
          sslTime |-> None,
          processingTime |-> None]

\* the download time left as computed
correctedTimings_NoDownloadFix(startFetchTime, responseStartTime, startReadTime, endFetchTime, performanceEntry) ==
  LET t == rawTimings(startFetchTime, responseStartTime, startReadTime,
                      endFetchTime, performanceEntry)
  IN [t EXCEPT
        !.ttfb = IF @ < 0 THEN responseStartTime - startFetchTime ELSE @,
        !.totalRequestTime = IF @ < 0 THEN endFetchTime - startFetchTime
                             ELSE @]

\* a negative ttfb left as computed
correctedTimings_NoTtfbFix(startFetchTime, responseStartTime, startReadTime, endFetchTime, performanceEntry) ==
  LET t == rawTimings(startFetchTime, responseStartTime, startReadTime,
                      endFetchTime, performanceEntry)
  IN [t EXCEPT
        !.totalRequestTime = IF @ < 0 THEN endFetchTime - startFetchTime
                             ELSE @,
        !.downloadTime = IF @ < 0 THEN endFetchTime - startReadTime ELSE @]

\* lines 154-164: a negative timing is recomputed from the coarse timestamps
correctedTimings(startFetchTime, responseStartTime, startReadTime, endFetchTime, performanceEntry) ==
  LET t == rawTimings(startFetchTime, responseStartTime, startReadTime,
                      endFetchTime, performanceEntry)
  IN [t EXCEPT
        !.ttfb = IF @ < 0 THEN responseStartTime - startFetchTime ELSE @,
        !.totalRequestTime = IF @ < 0 THEN endFetchTime - startFetchTime
                             ELSE @,
        !.downloadTime = IF @ < 0 THEN endFetchTime - startReadTime ELSE @]

\* line 197: response.headers.get("X-Cache") || "unknown"
cacheStatusOf(header) == IF header = "" THEN "unknown" ELSE header

\* the speed checked before the request time
gatedResult_SpeedFirst(t, receivedSize, xCache) ==
  IF SpeedAbove(receivedSize, t.downloadTime)
    THEN ErrorResult(url, "download speed above 1Gbps")
  ELSE IF t.totalRequestTime < MinRequestTimeMs
    THEN ErrorResult(url, "request time below 30ms")
  ELSE [status |-> "success",
        ttfb |-> t.ttfb,
        totalRequestTime |-> t.totalRequestTime,
        downloadTime |-> t.downloadTime,
        downloadSpeedBps |-> downloadSpeedBps(receivedSize, t.downloadTime),
        downloadSize |-> receivedSize,
        dnsLookupTime |-> t.dnsLookupTime,
        sslTime |-> t.sslTime,
        processingTime |-> t.processingTime,
        url |-> url,
        cacheStatus |-> cacheStatusOf(xCache)]

\* lines 166-198: the plausibility gate and the Success result
gatedResult(t, receivedSize, xCache) ==
  IF t.totalRequestTime < MinRequestTimeMs
    THEN ErrorResult(url, "request time below 30ms")
  ELSE IF SpeedAbove(receivedSize, t.downloadTime)
    THEN ErrorResult(url, "download speed above 1Gbps")
  ELSE [status |-> "success",
        ttfb |-> t.ttfb,
        totalRequestTime |-> t.totalRequestTime,
        downloadTime |-> t.downloadTime,
        downloadSpeedBps |-> downloadSpeedBps(receivedSize, t.downloadTime),
        downloadSize |-> receivedSize,
        dnsLookupTime |-> t.dnsLookupTime,
        sslTime |-> t.sslTime,
        processingTime |-> t.processingTime,
        url |-> url,
        cacheStatus |-> cacheStatusOf(xCache)]

(***************************************************************************)
(* Environment: network delays, response variants, resource-timing entries *)
(***************************************************************************)
Delays == {3000}
\* the X-Cache response header of the server; a response without it, and
\* other values, are among ProbeXCacheHeaders below
XCacheHeaders == {"HIT"}
Responses == {"ok-range", "ok-full", "bad-status", "server-error", "no-body"}

\* response.status and response.statusText of each response
Status(response) ==
  CASE response = "ok-range" -> 206
    [] response = "bad-status" -> 404
    [] response = "server-error" -> 503
    [] OTHER -> 200

StatusText(response) ==
  CASE response = "ok-range" -> "Partial Content"
    [] response = "bad-status" -> "Not Found"
    [] response = "server-error" -> "Service Unavailable"
    [] OTHER -> "OK"

\* response.ok
ok(response) == Status(response) \in 200..299

\* line 94: `Failed with status ${response.status} ${response.statusText}`
StatusError(response) ==
  "Failed with status " \o ToString(Status(response)) \o " "
     \o StatusText(response)
EntryModes == {"before", "never"}

Entry(fs, dls, dle, scs, ce, rs, re, dur) ==
  [fetchStart |-> fs, domainLookupStart |-> dls, domainLookupEnd |-> dle,
   secureConnectionStart |-> scs, connectEnd |-> ce, responseStart |-> rs,
   responseEnd |-> re, duration |-> dur]

ResourceTimings == {Entry(0, 0, 5, 10, 20, 50, 90, 90)}

\* the values fetch and reader.read() reject with
Fault(name, message) == [name |-> name, message |-> message]
FetchFaults == {Fault("TypeError", "Failed to fetch")}
AbortFault == Fault("AbortError", "The user aborted a request.")
ReadFaults == {Fault("TypeError", "network error")}

\* the fault thrown on: the probe's promise rejects
Caught_Rethrown(e) == [status |-> "rejected", url |-> url, error |-> e.message]

\* lines 199-205: the catch block
Caught(e) == ErrorResult(url, e.message)

(***************************************************************************)
(* State                                                                   *)
(***************************************************************************)
Attempts == 1..MaxRuns

\* clock is performance.now() - startFetchTime; responseTimeoutId is the
\* time left on the 5000 ms timer; status is response.status, 0 while there
\* is no response; age is the time since the attempt started, up to MaxAge
IdleProbe ==
  [pc |-> "idle", clock |-> 0, startFetchTime |-> 0, responseStartTime |-> 0,
   startReadTime |-> 0, receivedSize |-> 0, responseTimeoutId |-> NoTimer,
   status |-> 0, xCache |-> "", bodyLeft |-> 0, aborted |-> FALSE,
   timings |-> None, result |-> None, age |-> 0]

\* a probe that has returned: its result, the timings and the byte count the
\* result was computed from are kept until the next attempt starts
DoneProbe(r, t, size, wasAborted, status) ==
  [IdleProbe EXCEPT !.pc = "done", !.result = <<r>>, !.timings = t,
                    !.receivedSize = size, !.aborted = wasAborted,
                    !.status = status]

Forgotten(p) ==
  IF p.pc = "done" THEN [IdleProbe EXCEPT !.pc = "done", !.age = p.age] ELSE p

InFlight(k) == probe[k].pc \in {"fetch", "read"}

\* the App of src/unnamed/part_002 (lines 41-50) before a test: pc is where
\* startTest stands, todo the urls it has still to benchmark
IdleApp ==
  [pc |-> "idle", testVideoId |-> "131701", isRunning |-> FALSE,
   results |-> None, totalUrls |-> None, error |-> None, todo |-> <<>>,
   PUBLISH_RESULTS |-> FALSE]

Init ==
  /\ rpc = "start"
  /\ numRuns \in -1..MaxRuns
  /\ i = 0
  /\ results = <<>>
  /\ ret = None
  /\ wdTimer = NoTimer
  /\ pauseTimer = NoTimer
  /\ probe = [k \in Attempts |-> IdleProbe]
  /\ perf = <<>>
  /\ ticks = 0
  /\ app = IdleApp

(***************************************************************************)
(* runBenchmark                                                            *)
(***************************************************************************)
\* the request issued without the 5000 ms timer
StartedProbe_NoTimer == [IdleProbe EXCEPT !.pc = "fetch"]

\* lines 72-85: runSingleBenchmark runs up to its await of fetch
StartedProbe ==
  [IdleProbe EXCEPT !.pc = "fetch", !.responseTimeoutId = ResponseTimeoutMs]

\* lines 49-52: attempt k starts, withTimeout arms the watchdog
StartAttempt(k) ==
  /\ probe' = [j \in Attempts |->
                 IF j = k THEN StartedProbe ELSE Forgotten(probe[j])]
  /\ wdTimer' = maxTime + WatchdogExtra

\* line 42: the Error the call's promise is rejected with
Thrown(message) == [thrown |-> message]

\* the loop entered without the check of numRuns
Call_NoCheck ==
  /\ rpc = "start"
  /\ rpc' = "await"
  /\ StartAttempt(1)
  /\ ticks' = ticks
  /\ app' = app
  /\ UNCHANGED <<numRuns, i, results, ret, pauseTimer, perf>>

\* lines 36-52: the call, up to the first await
Call ==
  /\ rpc = "start"
  /\ IF numRuns < 1
       THEN /\ rpc' = "thrown"
            /\ ret' = <<Thrown("numRuns must be at least 1")>>
            /\ UNCHANGED <<probe, wdTimer>>
       ELSE /\ rpc' = "await"
            /\ ret' = ret
            /\ StartAttempt(1)
  /\ ticks' = ticks
  /\ app' = app
  /\ UNCHANGED <<numRuns, i, results, pauseTimer, perf>>

\* the runner awaits attempt k (line 49)
Awaited(k) == rpc = "await" /\ k = i + 1

\* the next attempt not delayed
RunnerOnSettle_NoPause(k, r) ==
  IF Awaited(k) /\ r.status # "rejected"
    THEN /\ results' = Append(results, r)
         /\ wdTimer' = NoTimer
         /\ pauseTimer' = 0
         /\ rpc' = "pause"
    ELSE UNCHANGED <<results, wdTimer, pauseTimer, rpc>>

\* lines 29-32 and 59-62: the probe's promise settles with r while the runner
\* awaits it: the watchdog is cleared, r is pushed, the pause is armed; then()
\* of line 29 has no handler for a rejection
RunnerOnSettle(k, r) ==
  IF Awaited(k) /\ r.status # "rejected"
    THEN /\ results' = Append(results, r)
         /\ wdTimer' = NoTimer
         /\ pauseTimer' = PauseMs
         /\ rpc' = "pause"
    ELSE UNCHANGED <<results, wdTimer, pauseTimer, rpc>>

\* the watchdog's entry not recorded
WatchdogFires_NoEntry ==
  /\ rpc = "await"
  /\ wdTimer = 0
  /\ results' = results
  /\ wdTimer' = NoTimer
  /\ pauseTimer' = PauseMs
  /\ rpc' = "pause"
  /\ ticks' = ticks
  /\ app' = app
  /\ UNCHANGED <<numRuns, i, ret, probe, perf>>

\* the await not resolved by the watchdog
WatchdogFires_Waits ==
  /\ rpc = "await"
  /\ wdTimer = 0
  /\ wdTimer' = NoTimer
  /\ ticks' = ticks
  /\ app' = app
  /\ UNCHANGED <<rpc, results, pauseTimer, numRuns, i, ret, probe, perf>>

\* lines 28 and 53-58, 62: the watchdog resolves the await with null
WatchdogFires ==
  /\ rpc = "await"
  /\ wdTimer = 0
  /\ results' = Append(results, ErrorResult(url, "unexpected timeout"))
  /\ wdTimer' = NoTimer
  /\ pauseTimer' = PauseMs
  /\ rpc' = "pause"
  /\ ticks' = ticks
  /\ app' = app
  /\ UNCHANGED <<numRuns, i, ret, probe, perf>>

\* lines 62-64 and 48-52: the pause is over; next attempt or aggregation
PauseEnds ==
  /\ rpc = "pause"
  /\ pauseTimer = 0
  /\ pauseTimer' = NoTimer
  /\ i' = i + 1
  /\ IF i + 1 < numRuns
       THEN /\ rpc' = "await"
            /\ StartAttempt(i + 2)
            /\ ret' = ret
       ELSE /\ rpc' = "done"
            /\ ret' = <<aggregateBenchmarkResults(results)>>
            /\ UNCHANGED <<probe, wdTimer>>
  /\ ticks' = ticks
  /\ app' = app
  /\ UNCHANGED <<numRuns, results, perf>>

(***************************************************************************)
(* runSingleBenchmark                                                      *)
(***************************************************************************)
\* a return or the catch block: the probe's promise settles with r; when the
\* watchdog has already resolved the await, line 31 has no effect and r is
\* dropped
SettleWith(k, r, t, size, wasAborted, status) ==
  /\ probe' = [probe EXCEPT ![k] =
                 IF Awaited(k)
                   THEN [DoneProbe(r, t, size, wasAborted, status)
                           EXCEPT !.age = probe[k].age]
                   ELSE [IdleProbe EXCEPT !.pc = "done",
                                          !.age = probe[k].age]]
  /\ RunnerOnSettle(k, r)
  /\ ticks' = ticks
  /\ app' = app
  /\ UNCHANGED <<numRuns, i, ret>>

Settle(k, r, t, size, wasAborted) ==
  SettleWith(k, r, t, size, wasAborted, probe[k].status)

\* lines 76-78 and 199-205: no headers within 5000 ms, abort, fetch rejects
ResponseTimeout(k) ==
  /\ probe[k].pc = "fetch"
  /\ probe[k].responseTimeoutId = 0
  /\ Settle(k, Caught(AbortFault), None, 0, TRUE)
  /\ UNCHANGED perf

\* lines 85 and 199-205: fetch rejects
FetchFails(k) ==
  /\ probe[k].pc = "fetch"
  /\ \E e \in FetchFaults : Settle(k, Caught(e), None, 0, FALSE)
  /\ UNCHANGED perf

\* the body read whatever the status
HeadersArrive_AnyStatus(k, response, header) ==
  /\ probe[k].pc = "fetch"
  /\ CASE response = "no-body" ->
            SettleWith(k, ErrorResult(url, "No reader found"), None, 0,
                       FALSE, Status(response))
       [] OTHER ->
            /\ probe' = [probe EXCEPT ![k] =
                 [@ EXCEPT !.pc = "read",
                           !.responseTimeoutId = NoTimer,
                           !.status = Status(response),
                           !.responseStartTime = probe[k].clock,
                           !.startReadTime = probe[k].clock,
                           !.receivedSize = 0,
                           !.xCache = header,
                           !.bodyLeft = IF response = "ok-range"
                                          THEN Min(ResourceSize,
                                                   maxDownloadSize)
                                          ELSE ResourceSize]]
            /\ ticks' = ticks
            /\ app' = app
            /\ UNCHANGED <<rpc, numRuns, i, results, ret, wdTimer,
                           pauseTimer>>
  /\ UNCHANGED perf

\* lines 85-107: the response headers arrive
HeadersArrive(k, response, header) ==
  /\ probe[k].pc = "fetch"
  /\ CASE ~ok(response) ->
            SettleWith(k, ErrorResult(url, StatusError(response)), None, 0,
                       FALSE, Status(response))
       [] response = "no-body" ->
            SettleWith(k, ErrorResult(url, "No reader found"), None, 0,
                       FALSE, Status(response))
       [] OTHER ->
            /\ probe' = [probe EXCEPT ![k] =
                 [@ EXCEPT !.pc = "read",
                           !.responseTimeoutId = NoTimer,
                           !.status = Status(response),
                           !.responseStartTime = probe[k].clock,
                           !.startReadTime = probe[k].clock,
                           !.receivedSize = 0,
                           !.xCache = header,
                           !.bodyLeft = IF response = "ok-range"
                                          THEN Min(ResourceSize,
                                                   maxDownloadSize)
                                          ELSE ResourceSize]]
            /\ ticks' = ticks
            /\ app' = app
            /\ UNCHANGED <<rpc, numRuns, i, results, ret, wdTimer,
                           pauseTimer>>
  /\ UNCHANGED perf

\* lines 121-198: the read loop is left at endFetchTime = p.clock; the entry
\* of this request is put into the resource-timing buffer before the lookup,
\* after it, or never
Finish(k, p, mode, e, wasAborted) ==
  LET own == e @@ [req |-> k]
      seen == IF mode = "before" THEN Append(perf, own) ELSE perf
      performanceEntry == IF Len(seen) > 0 THEN <<seen[1]>> ELSE None
      t == correctedTimings(p.startFetchTime, p.responseStartTime,
                            p.startReadTime, p.clock, performanceEntry)
  IN /\ Settle(k, gatedResult(t, p.receivedSize, p.xCache), <<t>>,
               p.receivedSize, wasAborted)
     /\ perf' = IF mode = "after" THEN Append(perf, own) ELSE seen

\* lines 109-120: a chunk arrives
ChunkArrives(k, mode, e) ==
  /\ probe[k].pc = "read"
  /\ probe[k].bodyLeft > 0
  /\ LET c == Min(ChunkSize, probe[k].bodyLeft)
         p == [probe[k] EXCEPT !.receivedSize = @ + c, !.bodyLeft = @ - c]
     IN IF p.clock - p.startReadTime > maxTime
          THEN Finish(k, p, mode, e, TRUE)
          ELSE /\ probe' = [probe EXCEPT ![k] = p]
               /\ ticks' = ticks
               /\ app' = app
               /\ UNCHANGED <<rpc, numRuns, i, results, ret, wdTimer,
                              pauseTimer, perf>>

\* lines 109-112: the body stream ends
StreamEnds(k, mode, e) ==
  /\ probe[k].pc = "read"
  /\ probe[k].bodyLeft = 0
  /\ Finish(k, probe[k], mode, e, FALSE)

\* lines 109 and 199-205: reading a chunk fails
ReadFails(k) ==
  /\ probe[k].pc = "read"
  /\ \E e \in ReadFaults : Settle(k, Caught(e), None, 0, FALSE)
  /\ UNCHANGED perf

(***************************************************************************)
(* The passage of time                                                     *)
(***************************************************************************)
Timers == ({wdTimer, pauseTimer}
             \cup {probe[k].responseTimeoutId : k \in Attempts}) \ {NoTimer}

NextTimer == CHOOSE t \in Timers : \A u \in Timers : t <= u

Elapse(d) ==
  /\ wdTimer' = IF wdTimer = NoTimer THEN NoTimer ELSE wdTimer - d
  /\ pauseTimer' = IF pauseTimer = NoTimer THEN NoTimer ELSE pauseTimer - d
  /\ probe' = [k \in Attempts |->
                 IF InFlight(k)
                   THEN [probe[k] EXCEPT
                           !.clock = @ + d,
                           !.age = Min(@ + d, MaxAge),
                           !.responseTimeoutId =
                              IF @ = NoTimer THEN NoTimer ELSE @ - d]
                 ELSE IF probe[k].pc = "done"
                   THEN [probe[k] EXCEPT !.age = Min(@ + d, MaxAge)]
                   ELSE probe[k]]
  /\ UNCHANGED <<rpc, numRuns, i, results, ret, perf>>

\* the network takes d ms (at most MaxTicks times in a call) while a request
\* is awaited; no timer is passed
Tick(d) ==
  /\ ticks < MaxTicks
  /\ \E k \in Attempts : InFlight(k)
  /\ \A t \in Timers : t > 0
  /\ ticks' = ticks + 1
  /\ app' = app
  /\ Elapse(IF Timers # {} THEN Min(d, NextTimer) ELSE d)

\* time passes up to the next timer
AdvanceToTimer ==
  /\ Timers # {}
  /\ \A t \in Timers : t > 0
  /\ ticks' = ticks
  /\ app' = app
  /\ Elapse(NextTimer)

Next ==
  \/ Call
  \/ WatchdogFires
  \/ PauseEnds
  \/ \E k \in Attempts : ResponseTimeout(k)
  \/ \E k \in Attempts : FetchFails(k)
  \/ \E k \in Attempts, r \in Responses, h \in XCacheHeaders :
       HeadersArrive(k, r, h)
  \/ \E k \in Attempts, m \in EntryModes, e \in ResourceTimings :
       ChunkArrives(k, m, e)
  \/ \E k \in Attempts, m \in EntryModes, e \in ResourceTimings :
       StreamEnds(k, m, e)
  \/ \E k \in Attempts : ReadFails(k)
  \/ \E d \in Delays : Tick(d)
  \/ AdvanceToTimer

Spec == Init /\ [][Next]_vars

\* the event loop runs a timer that is due and time does not stop; nothing is
\* assumed of the server and the network
TimerStep ==
  \/ Call
  \/ WatchdogFires
  \/ PauseEnds
  \/ \E k \in Attempts : ResponseTimeout(k)
  \/ AdvanceToTimer

SpecLive == Spec /\ WF_vars(TimerStep)

(***************************************************************************)
(* One probe at the end of its read, over a range of coarse timestamps,    *)
(* byte counts and resource-timing entries                                 *)
(***************************************************************************)
CoarseTtfbs == {0, 25, 50}
CoarseReadTimes == {0, 1, 40}
ReceivedSizes == {0, 1000, 125000, 125001}
ProbeXCacheHeaders == {"HIT", "MISS", ""}

\* entries: usual; over in 25 ms; no download time; 1 ms of download time;
\* skewed (all three timings negative); cross-origin without timing details
ProbeTimings == {Entry(0, 0, 5, 10, 20, 50, 90, 90),
                 Entry(0, 0, 1, 2, 5, 20, 25, 25),
                 Entry(0, 0, 5, 10, 20, 50, 50, 50),
                 Entry(0, 0, 5, 10, 20, 50, 51, 51),
                 Entry(100, 100, 105, 110, 120, 90, 80, -10),
                 Entry(100, 0, 0, 0, 0, 0, 190, 90)}

\* the entry an earlier request of the url has left in the buffer (an
\* earlier probe of any call in the same page), as request 0
EarlierEntry == Entry(0, 0, 2, 4, 8, 30, 60, 60) @@ [req |-> 0]

InitProbe ==
  /\ rpc = "await"
  /\ numRuns = 1
  /\ i = 0
  /\ results = <<>>
  /\ ret = None
  /\ pauseTimer = NoTimer
  /\ perf \in {<<>>, <<EarlierEntry>>}
  /\ ticks = 0
  /\ app = IdleApp
  /\ \E ttfb \in CoarseTtfbs, rt \in CoarseReadTimes, size \in ReceivedSizes,
        h \in ProbeXCacheHeaders :
       /\ probe = [k \in Attempts |->
                     IF k = 1
                       THEN [IdleProbe EXCEPT !.pc = "read",
                                              !.status = 200,
                                              !.clock = ttfb + rt,
                                              !.age = Min(ttfb + rt, MaxAge),
                                              !.responseStartTime = ttfb,
                                              !.startReadTime = ttfb,
                                              !.receivedSize = size,
                                              !.xCache = h]
                       ELSE IdleProbe]
       /\ wdTimer = maxTime + WatchdogExtra - (ttfb + rt)

NextProbe == \E m \in EntryModes, e \in ProbeTimings : StreamEnds(1, m, e)

SpecProbe == InitProbe /\ [][NextProbe]_vars

(***************************************************************************)
(* The aggregation at the end of a call, over a range of collected results *)
(***************************************************************************)
Success(ttfb, total, dl, size, opt, cache) ==
  [status |-> "success", ttfb |-> ttfb, totalRequestTime |-> total,
   downloadTime |-> dl, downloadSpeedBps |-> downloadSpeedBps(size, dl),
   downloadSize |-> size,
   dnsLookupTime |-> IF opt THEN <<5>> ELSE None,
   sslTime |-> IF opt THEN <<10>> ELSE None,
   processingTime |-> IF opt THEN <<30>> ELSE None,
   url |-> url, cacheStatus |-> cache]

SampleResults ==
  {Success(10, 90, 80, 1, FALSE, "HIT"),
   Success(50, 90, 40, 1, TRUE, "HIT"),
   Success(15, 95, 80, 3, FALSE, "HIT"),
   Success(50, 90, 40, 2, TRUE, "MISS"),
   Success(30, 110, 80, 5, FALSE, "unknown"),
   Success(20, 60, 40, 7, FALSE, "hit"),
   ErrorResult(url, "unexpected timeout"),
   ErrorResult(url, "Failed to fetch")}

InitAgg ==
  /\ rpc = "pause"
  /\ pauseTimer = 0
  /\ wdTimer = NoTimer
  /\ \E n \in 1..MaxResults : results \in [1..n -> SampleResults]
  /\ numRuns = Len(results)
  /\ i = numRuns - 1
  /\ ret = None
  /\ probe = [k \in 1..numRuns |->
                [IdleProbe EXCEPT !.pc = "done", !.age = MaxAge]]
  /\ perf = <<>>
  /\ ticks = 0
  /\ app = IdleApp

NextAgg == PauseEnds

SpecAgg == InitAgg /\ [][NextAgg]_vars

(***************************************************************************)
(* The App: startTest of src/unnamed/part_002.  A call of runBenchmark is  *)
(* one step here: with TESTS_COUNT = 3 runs it never throws and always     *)
(* returns a Success or an Error result (C13, C14, C15).                   *)
(***************************************************************************)
\* most distributing operators with an endpoint that a video's storage bag
\* has; every object has one url for each of them and one for the gateway
MaxEndpoints == 1

\* the values of the "Video ID" text field
VideoIds == {"131701", "12ab", "abc"}

\* isNaN(parseInt(testVideoId)): parseInt reads the leading digits
isNaNparseInt(testVideoId) == testVideoId \notin {"131701", "12ab"}

\* the result of gatherTestObjects: an object of type "media" and one of type
\* "thumbnail", with the same number of urls; here as the sequence of the
\* object types of the urls in the order the two loops visit them
testObjects(endpoints) ==
  [j \in 1..(2 * (endpoints + 1)) |->
     IF j <= endpoints + 1 THEN "media" ELSE "thumbnail"]

runnerVars == <<rpc, numRuns, i, results, ret, wdTimer, pauseTimer, probe,
                perf, ticks>>

\* the local array results of startTest, which the state shares after the
\* first push
Collected == IF app.results = None THEN <<>> ELSE app.results[1]

\* the text field is disabled while a test is running
SetVideoId ==
  /\ ~app.isRunning
  /\ \E v \in VideoIds \ {app.testVideoId} :
       app' = [app EXCEPT !.testVideoId = v]
  /\ UNCHANGED runnerVars

\* a click on the "Run test" button, which is disabled while isRunning: the
\* handler up to its first await
startTest ==
  /\ ~app.isRunning
  /\ IF isNaNparseInt(app.testVideoId)
       THEN app' = [app EXCEPT !.error = <<"Wrong video ID">>]
       ELSE app' = [app EXCEPT !.isRunning = TRUE, !.results = None,
                               !.totalUrls = None, !.error = None,
                               !.todo = <<>>, !.pc = "speedtest"]
  /\ UNCHANGED runnerVars

\* the speed test calls onFinish: performSpeedTest returns
SpeedTestFinishes ==
  /\ app.pc = "speedtest"
  /\ app' = [app EXCEPT !.pc = "gather"]
  /\ UNCHANGED runnerVars

\* the speed test calls onError: performSpeedTest rejects, and so does
\* startTest, which awaits it outside any try
SpeedTestFails ==
  /\ app.pc = "speedtest"
  /\ app' = [app EXCEPT !.pc = "idle"]
  /\ UNCHANGED runnerVars

\* gatherTestObjects returns null (no video, media or thumbnail) or the two
\* test objects
GatherReturns ==
  /\ app.pc = "gather"
  /\ \/ app' = [app EXCEPT !.pc = "idle", !.isRunning = FALSE,
                           !.error = <<"Failed to prepare test data">>]
     \/ \E endpoints \in 0..MaxEndpoints :
          app' = [app EXCEPT !.pc = "bench",
                             !.todo = testObjects(endpoints),
                             !.totalUrls = <<Len(testObjects(endpoints))>>]
  /\ UNCHANGED runnerVars

\* the GraphQL request of gatherTestObjects rejects, and so does startTest
GatherFails ==
  /\ app.pc = "gather"
  /\ app' = [app EXCEPT !.pc = "idle"]
  /\ UNCHANGED runnerVars

\* the end of startTest after the loops
AfterLoop(a) ==
  IF a.PUBLISH_RESULTS THEN [a EXCEPT !.pc = "upload"]
                       ELSE [a EXCEPT !.pc = "idle", !.isRunning = FALSE]

\* runBenchmark returns for the next url; the result is pushed and shown
BenchmarkReturns ==
  /\ app.pc = "bench"
  /\ \E status \in {"success", "error"} :
       LET pushed == Append(Collected,
                            [status |-> status, objectType |-> Head(app.todo)])
           a      == [app EXCEPT !.results = <<pushed>>, !.todo = Tail(app.todo)]
       IN  app' = IF a.todo = <<>> THEN AfterLoop(a) ELSE a
  /\ UNCHANGED runnerVars

\* the POST of the results is answered with an ok response
UploadOk ==
  /\ app.pc = "upload"
  /\ app' = [app EXCEPT !.pc = "idle", !.isRunning = FALSE]
  /\ UNCHANGED runnerVars

\* the POST rejects or its response is not ok: the catch sets the error and
\* line 144 runs after it
UploadFails ==
  /\ app.pc = "upload"
  /\ app' = [app EXCEPT !.pc = "idle", !.isRunning = FALSE,
                        !.error = <<"Failed to upload results">>]
  /\ UNCHANGED runnerVars

\* PUBLISH_RESULTS is fixed by the build; no benchmark is running
InitApp ==
  /\ rpc = "start"
  /\ numRuns = MaxRuns
  /\ i = 0
  /\ results = <<>>
  /\ ret = None
  /\ wdTimer = NoTimer
  /\ pauseTimer = NoTimer
  /\ probe = [k \in 1..MaxRuns |-> IdleProbe]
  /\ perf = <<>>
  /\ ticks = 0
  /\ \E p \in BOOLEAN : app = [IdleApp EXCEPT !.PUBLISH_RESULTS = p]

\* the steps that the browser takes without the user
AppContinues ==
  \/ SpeedTestFinishes
  \/ SpeedTestFails
  \/ GatherReturns
  \/ GatherFails
  \/ BenchmarkReturns
  \/ UploadOk
  \/ UploadFails

NextApp ==
  \/ SetVideoId
  \/ startTest
  \/ AppContinues

\* every awaited promise of startTest settles
SpecApp == InitApp /\ [][NextApp]_vars /\ WF_vars(AppContinues)

(***************************************************************************)
(* Properties                                                              *)
(***************************************************************************)
Started == {k \in DOMAIN probe : probe[k].pc # "idle"}

SuccessFields == {"status", "ttfb", "totalRequestTime", "downloadTime",
                  "downloadSize", "downloadSpeedBps", "dnsLookupTime",
                  "sslTime", "processingTime", "url", "cacheStatus"}
ErrorFields == {"status", "url", "error"}

Populated(r) ==
  \/ r.status = "success" /\ DOMAIN r = SuccessFields
  \/ r.status = "error" /\ DOMAIN r = ErrorFields

\* the value a result contributes to the sum of a field: 0 when absent
Contribution(r, key) ==
  IF key \in OptionalKeys
    THEN (IF Len(r[key]) = 0 THEN 0 ELSE r[key][1])
    ELSE r[key]

RECURSIVE SumOver(_, _)
SumOver(S, key) ==
  IF S = {} THEN 0
  ELSE LET k == CHOOSE x \in S : TRUE
       IN Contribution(results[k], key) + SumOver(S \ {k}, key)

SuccIdx == {k \in 1..Len(results) : results[k].status = "success"}
HitIdx == {k \in SuccIdx : results[k].cacheStatus = "HIT"}
Selected == IF HitIdx # {} THEN HitIdx ELSE SuccIdx
First(S) == CHOOSE k \in S : \A j \in S : k <= j
Returned == rpc = "done" /\ ret # None

\* C1: one call with numRuns >= 1 starts exactly numRuns probe attempts, one
\* after the other, collects exactly one entry per attempt in attempt order
\* (a settled probe's own result, or the watchdog's entry), and returns
\* exactly one populated Success or Error result.
C1_OneResultPerAttempt ==
  /\ rpc = "await" => Len(results) = i /\ Started = 1..(i + 1) /\ ret = None
  /\ rpc = "pause" =>
       /\ Len(results) = i + 1 /\ Started = 1..(i + 1) /\ ret = None
       /\ probe[i + 1].result # None =>
            results[i + 1] = probe[i + 1].result[1]
  /\ rpc = "done" =>
       /\ numRuns >= 1
       /\ i = numRuns
       /\ Len(results) = numRuns
       /\ Started = 1..numRuns
       /\ \A k \in 1..numRuns : results[k].url = url
       /\ Len(ret) = 1
       /\ Populated(ret[1])

C1_Witness ==
  /\ rpc = "done"
  /\ numRuns >= 2
  /\ ret[1].status = "success"
  /\ \E k \in 1..numRuns : results[k].status = "error"

\* C2: at no moment are two probe attempts of one call in flight.
C2_NoOverlap == Cardinality({k \in Attempts : InFlight(k)}) <= 1

\* C3: when every attempt ended as an Error, the returned result is the
\* first attempt's Error result, unchanged.
C3_FirstError ==
  (Returned /\ SuccIdx = {}) => ret[1] = results[1]

C3_Witness ==
  /\ Returned
  /\ SuccIdx = {}
  /\ Len(results) >= 2
  /\ results[1].error = "unexpected timeout"
  /\ results[2].error # results[1].error
  /\ ret[1].error = "unexpected timeout"

\* C4: the averages are taken over the successes whose cacheStatus is
\* exactly "HIT" when there is one, and over all successes otherwise; errors
\* never count.
C4_Selection ==
  (Returned /\ SuccIdx # {}) =>
     /\ ret[1].status = "success"
     /\ ret[1].downloadSize.d = Cardinality(Selected)
     /\ ret[1].downloadSize.n = SumOver(Selected, "downloadSize")
     /\ ret[1].totalRequestTime.d = Cardinality(Selected)
     /\ ret[1].totalRequestTime.n = SumOver(Selected, "totalRequestTime")

C4_Witness ==
  /\ Returned
  /\ HitIdx # {}
  /\ SuccIdx \ HitIdx # {}
  /\ SuccIdx # 1..Len(results)
  /\ ret[1].downloadSize.d = Cardinality(HitIdx)

\* C5: each numeric field of the aggregate is the arithmetic mean of the
\* field over the selected runs, an absent optional field counting as 0
\* while its run still counts: field * k = v1 + ... + vk.
C5_Mean ==
  (Returned /\ SuccIdx # {}) =>
     \A key \in NumericKeys :
        /\ ret[1][key].d > 0
        /\ ret[1][key].n * Cardinality(Selected)
             = SumOver(Selected, key) * ret[1][key].d

\* three runs with downloadSpeedBps 100, 200 and 300 average to 200, and a
\* run without dnsLookupTime is averaged with one that has it
C5_Witness ==
  /\ Returned
  /\ Cardinality(Selected) = 3
  /\ {results[k].downloadSpeedBps : k \in Selected} = {100, 200, 300}
  /\ ret[1].downloadSpeedBps.n = 200 * ret[1].downloadSpeedBps.d
  /\ \E k \in Selected : results[k].dnsLookupTime = None
  /\ \E k \in Selected : results[k].dnsLookupTime # None

\* C6: url and cacheStatus of the aggregate are those of the first selected
\* run, so the aggregate is "HIT" exactly when some success was "HIT".
C6_Representative ==
  (Returned /\ SuccIdx # {}) =>
     /\ ret[1].url = results[First(Selected)].url
     /\ ret[1].cacheStatus = results[First(Selected)].cacheStatus
     /\ (ret[1].cacheStatus = "HIT") <=> (HitIdx # {})

C6_Witness ==
  /\ Returned
  /\ HitIdx = {}
  /\ Cardinality(SuccIdx) >= 2
  /\ First(SuccIdx) > 1
  /\ \E k \in SuccIdx :
       results[k].cacheStatus # results[First(SuccIdx)].cacheStatus

\* C7: a probe never has more than maxDownloadSize bytes read, and never
\* reports a larger downloadSize.
C7_NeverReadsMore ==
  /\ \A k \in Attempts : probe[k].receivedSize <= maxDownloadSize
  /\ \A k \in 1..Len(results) :
        results[k].status = "success" =>
           results[k].downloadSize <= maxDownloadSize

Measured(k) == probe[k].pc = "done" /\ probe[k].timings # None

\* C8: a probe whose request completed and whose corrected totalRequestTime
\* is below 30 ms returns the Error "request time below 30ms", whatever the
\* byte count, the other timings and the speed they give.
C8_TooFast ==
  \A k \in Attempts :
     (Measured(k) /\ probe[k].timings[1].totalRequestTime < 30) =>
        probe[k].result[1] = ErrorResult(url, "request time below 30ms")

\* 25 ms in total, with a byte count and a download time that give more
\* than 1e9 bits per second
C8_Witness ==
  /\ Measured(1)
  /\ probe[1].timings[1].totalRequestTime = 25
  /\ probe[1].receivedSize = 125001
  /\ probe[1].timings[1].downloadTime <= 1
  /\ probe[1].result[1].status = "error"

\* the probe reached line 175 and computed a speed above 1e9 bits per second
\* (more than 1e6 bits per millisecond of floored download time)
SpeedComputedAbove(k) ==
  /\ Measured(k)
  /\ probe[k].timings[1].totalRequestTime >= 30
  /\ probe[k].receivedSize * 8
       > 1000000 * (IF probe[k].timings[1].downloadTime > 1
                      THEN probe[k].timings[1].downloadTime ELSE 1)

\* C9: a probe whose computed downloadSpeedBps exceeds 1e9 returns the Error
\* "download speed above 1Gbps", never a Success.
C9_TooQuick ==
  \A k \in Attempts :
     SpeedComputedAbove(k) =>
        probe[k].result[1] = ErrorResult(url, "download speed above 1Gbps")

C9_Witness ==
  /\ SpeedComputedAbove(1)
  /\ probe[1].receivedSize = 125001
  /\ probe[1].timings[1].downloadTime = 1
  /\ probe[1].result[1].status = "error"

ProbeSuccess(k) ==
  /\ probe[k].pc = "done"
  /\ probe[k].result # None
  /\ probe[k].result[1].status = "success"

\* C10 as stated: in every Success of the probe, downloadSize > 0 implies
\* downloadTime > 0.
C10_PositiveDownloadTime ==
  \A k \in Attempts :
     (ProbeSuccess(k) /\ probe[k].result[1].downloadSize > 0) =>
        probe[k].result[1].downloadTime > 0

\* C10 amended: in every Success of the probe the download time is not
\* negative, and the speed is computed with the download time floored at
\* 1 ms: downloadSpeedBps = downloadSize * 8000 / max(downloadTime, 1).
C10_FlooredSpeed ==
  \A k \in Attempts :
     ProbeSuccess(k) =>
        LET r == probe[k].result[1]
        IN /\ r.downloadTime >= 0
           /\ r.downloadSpeedBps =
                (r.downloadSize * 8000)
                   \div (IF r.downloadTime >= 1 THEN r.downloadTime ELSE 1)

C10_Witness ==
  /\ ProbeSuccess(1)
  /\ probe[1].result[1].downloadSize > 0
  /\ probe[1].result[1].downloadTime = 0
  /\ probe[1].result[1].downloadSpeedBps = probe[1].result[1].downloadSize * 8000

\* the probe k leaves its read loop and returns with measured timings
Measures(k) ==
  /\ probe[k].pc = "read"
  /\ probe'[k].pc = "done"
  /\ probe'[k].timings # None

\* C11: the ttfb, totalRequestTime and downloadTime a probe ends with are
\* never negative, a Success carries exactly them, and each one that the
\* resource-timing entry gives as negative is the difference of the probe's
\* own coarse timestamps instead.
C11_NoNegativeTiming ==
  [][\A k \in Attempts :
       Measures(k) =>
         LET p == probe[k]
             t == probe'[k].timings[1]
             r == probe'[k].result[1]
             fine == Len(perf') > 0
             e == perf'[1]
         IN /\ t.ttfb >= 0 /\ t.totalRequestTime >= 0 /\ t.downloadTime >= 0
            /\ r.status = "success" =>
                 /\ r.ttfb = t.ttfb
                 /\ r.totalRequestTime = t.totalRequestTime
                 /\ r.downloadTime = t.downloadTime
            /\ (fine /\ e.responseStart - e.fetchStart < 0) =>
                 t.ttfb = p.responseStartTime - p.startFetchTime
            /\ (fine /\ e.duration < 0) =>
                 t.totalRequestTime = p.clock - p.startFetchTime
            /\ (fine /\ e.responseEnd - e.responseStart < 0) =>
                 t.downloadTime = p.clock - p.startReadTime]_vars

\* a Success measured with a skewed entry: 50, 90 and 40 ms are the coarse
\* differences
C11_Witness ==
  /\ ProbeSuccess(1)
  /\ Len(perf) > 0
  /\ perf[1].responseStart < perf[1].fetchStart
  /\ perf[1].duration < 0
  /\ perf[1].responseEnd < perf[1].responseStart
  /\ probe[1].result[1].ttfb = 50
  /\ probe[1].result[1].totalRequestTime = 90
  /\ probe[1].result[1].downloadTime = 40

\* C12: a probe whose response has a status outside 200..299 returns the
\* Error "Failed with status <code> <reason phrase>" (404 gives "Failed with
\* status 404 Not Found") without reading the body; a probe reads a body
\* only of a response with a 2xx status, 206 included.
C12_BadStatus ==
  \A k \in Attempts :
     /\ (probe[k].pc = "done" /\ probe[k].status \notin {0} \cup (200..299)) =>
          /\ probe[k].result[1].status = "error"
          /\ probe[k].result[1].url = url
          /\ \E response \in Responses :
                /\ Status(response) = probe[k].status
                /\ probe[k].result[1].error =
                     "Failed with status " \o ToString(probe[k].status)
                        \o " " \o StatusText(response)
          /\ probe[k].status = 404 =>
               probe[k].result[1].error = "Failed with status 404 Not Found"
          /\ probe[k].receivedSize = 0
          /\ probe[k].timings = None
     /\ probe[k].pc = "read" => probe[k].status \in 200..299

C12_Witness ==
  /\ probe[1].pc = "done"
  /\ probe[1].status = 404
  /\ probe[1].result[1] = ErrorResult(url, "Failed with status 404 Not Found")
  /\ probe[1].receivedSize = 0
  /\ rpc = "pause"
  /\ results[1] = probe[1].result[1]

Synthetic == ErrorResult(url, "unexpected timeout")

\* C13: an attempt whose probe has not returned when the watchdog fires gets
\* the entry Error(url, "unexpected timeout"); whatever the server does, the
\* call comes to its end, and it ends with one entry for each of the numRuns
\* attempts and a result.
C13_WatchdogTerminates ==
  /\ [](\A k \in 1..Len(results) : InFlight(k) => results[k] = Synthetic)
  /\ <>(rpc \in {"done", "thrown"})
  /\ [](rpc = "done" => Len(results) = numRuns /\ ret # None)

\* both probes of a call stalled in their read loop, and the call returned
C13_Witness ==
  /\ rpc = "done"
  /\ numRuns = 2
  /\ \A k \in 1..2 : probe[k].pc = "read" /\ results[k] = Synthetic
  /\ ret = <<Synthetic>>

\* C14: a probe that stops being in flight has returned, never thrown: the
\* awaited one hands the runner a populated result with the url, which is
\* pushed; a rejected fetch or an abort gives the Error with the message of
\* the rejection, a failed read likewise, a response without a body reader
\* the Error "No reader found".
C14_NoFaultEscapes ==
  [][\A k \in Attempts :
       (InFlight(k) /\ probe'[k].pc \notin {"fetch", "read"}) =>
          /\ probe'[k].pc = "done"
          /\ Awaited(k) =>
               /\ probe'[k].result # None
               /\ LET r == probe'[k].result[1]
                      fetching == probe[k].pc = "fetch"
                      failed == probe'[k].timings = None
                  IN /\ Populated(r)
                     /\ r.url = url
                     /\ results' = Append(results, r)
                     /\ rpc' = "pause"
                     /\ failed => r.status = "error"
                     /\ (fetching /\ probe'[k].status = 0) =>
                          r.error \in {e.message :
                                         e \in FetchFaults \cup {AbortFault}}
                     /\ (fetching /\ probe'[k].aborted) =>
                          r.error = AbortFault.message
                     /\ (fetching /\ probe'[k].status = 200) =>
                          r.error = "No reader found"
                     /\ (~fetching /\ failed) =>
                          r.error \in {e.message : e \in ReadFaults}]_vars

\* a failed read in the first attempt, a rejected fetch in the second
C14_Witness ==
  /\ rpc = "done"
  /\ numRuns = 2
  /\ results[1] = ErrorResult(url, "network error")
  /\ results[2] = ErrorResult(url, "Failed to fetch")
  /\ ret = <<results[1]>>

NothingDone ==
  /\ \A k \in Attempts : probe[k] = IdleProbe
  /\ results = <<>>
  /\ perf = <<>>
  /\ wdTimer = NoTimer
  /\ pauseTimer = NoTimer
  /\ i = 0

\* C15: a call with numRuns < 1 ends by throwing the Error "numRuns must be
\* at least 1", returns nothing, and starts no probe, request, watchdog or
\* pause; no other call throws.
C15_Precondition ==
  /\ numRuns < 1 =>
       /\ rpc \in {"start", "thrown"}
       /\ NothingDone
       /\ ENABLED Call \/ rpc = "thrown"
  /\ rpc = "thrown" =>
       /\ numRuns < 1
       /\ ret = <<Thrown("numRuns must be at least 1")>>
  /\ rpc = "done" => numRuns >= 1 /\ "thrown" \notin DOMAIN ret[1]

C15_Witness ==
  /\ rpc = "thrown"
  /\ numRuns = 0
  /\ NothingDone
  /\ ret[1].thrown = "numRuns must be at least 1"

\* C16: when attempt k+1 has started, at least 200 ms have passed since
\* attempt k started; every entry pushed arms the pause of 200 ms, for a
\* probe's result and for the watchdog's entry alike, and the next attempt
\* starts only when the whole pause has passed.
C16_Spacing ==
  /\ [](\A k \in Attempts :
          (k + 1 \in Attempts /\ probe[k + 1].pc # "idle") =>
             probe[k].age >= 200)
  /\ [][/\ Len(results') > Len(results) =>
            rpc' = "pause" /\ pauseTimer' = 200
        /\ \A k \in Attempts :
             (k > 1 /\ probe[k].pc = "idle" /\ probe'[k].pc # "idle") =>
                rpc = "pause" /\ pauseTimer = 0]_vars
  /\ [](rpc = "pause" => pauseTimer + probe[i + 1].age >= 200)

\* the second attempt started 200 ms after the first, which failed at once
C16_Witness ==
  /\ probe[2].pc = "fetch"
  /\ probe[2].clock = 0
  /\ probe[1].age = 200
  /\ results = <<ErrorResult(url, "Failed to fetch")>>
  /\ ticks = 0

\* C17: a probe is never in its read loop with more than maxTime ms passed
\* since startReadTime: the read is cancelled when the budget is used up,
\* also when no chunk arrives.
C17_ReadBudgetKept ==
  \A k \in Attempts :
     probe[k].pc = "read" => probe[k].clock - probe[k].startReadTime <= maxTime

\* C18: the watchdog's entry is recorded only for a probe that is past its
\* own limits: still without headers after more than 5000 ms, or still in
\* its read loop after more than 20000 ms of reading.
C18_WatchdogOnlyHung ==
  [][(rpc = "await" /\ rpc' = "pause"
        /\ results' = Append(results, Synthetic)) =>
       LET p == probe[i + 1]
       IN \/ p.pc = "fetch" /\ p.clock > ResponseTimeoutMs
          \/ p.pc = "read" /\ p.clock - p.startReadTime > maxTime]_vars

\* C19: a probe that waits for the response headers has its 5000 ms timer
\* running and never waits longer; when the timer runs out the request is
\* aborted and the probe returns an Error without timing data; a probe that
\* waits for headers stops waiting; once the headers have arrived the timer
\* is disarmed, and the only abort of a read is that of the read budget.
C19_HeaderTimeout ==
  /\ [](\A k \in Attempts :
          /\ probe[k].pc = "fetch" =>
               /\ probe[k].clock <= 5000
               /\ probe[k].responseTimeoutId = 5000 - probe[k].clock
          /\ probe[k].pc = "read" => probe[k].responseTimeoutId = NoTimer
          /\ (probe[k].pc = "done" /\ probe[k].aborted
                 /\ probe[k].status # 0) =>
               /\ probe[k].timings # None
               /\ probe[k].receivedSize > 0)
  /\ [][\A k \in Attempts :
         (Awaited(k) /\ probe[k].pc = "fetch" /\ probe[k].clock = 5000
            /\ probe'[k].pc = "done" /\ probe'[k].status = 0) =>
           /\ probe'[k].result[1].status = "error"
           /\ DOMAIN probe'[k].result[1] = ErrorFields
           /\ probe'[k].timings = None
           /\ probe'[k].aborted =>
                probe'[k].result[1].error = "The user aborted a request."]_vars
  /\ (\E k \in Attempts : probe[k].pc = "fetch")
        ~> (\A k \in Attempts : probe[k].pc # "fetch")

\* the first attempt was aborted for want of headers, the second got its
\* headers after 3000 ms and is reading
C19_Witness ==
  /\ results = <<ErrorResult(url, "The user aborted a request.")>>
  /\ probe[2].pc = "read"
  /\ probe[2].startReadTime = 3000
  /\ probe[2].clock > 5000
  /\ probe[2].responseTimeoutId = NoTimer

\* the three timings of entry e are not negative, so none is corrected
Sound(e) ==
  /\ e.responseStart >= e.fetchStart
  /\ e.duration >= 0
  /\ e.responseEnd >= e.responseStart

\* C20: the timings of a probe whose request has put a sound entry into the
\* resource-timing buffer are those of that entry, whatever earlier requests
\* of the url have left there.
C20_OwnTimings ==
  [][\A k \in Attempts :
       (Measures(k) /\ Len(perf') > Len(perf)
          /\ Sound(perf'[Len(perf')])) =>
          LET own == perf'[Len(perf')]
              t == probe'[k].timings[1]
          IN /\ own.req = k
             /\ t.ttfb = own.responseStart - own.fetchStart
             /\ t.totalRequestTime = own.duration
             /\ t.downloadTime = own.responseEnd - own.responseStart
             /\ t.dnsLookupTime
                  = <<own.domainLookupEnd - own.domainLookupStart>>
             /\ t.sslTime = <<own.connectEnd - own.secureConnectionStart>>
             /\ t.processingTime = <<own.responseStart - own.connectEnd>>]_vars

\* C21: a probe whose request has put no entry into the resource-timing
\* buffer ends with dnsLookupTime, sslTime and processingTime absent and with
\* ttfb, totalRequestTime and downloadTime taken from its coarse timestamps,
\* and its Success carries them so; a probe ends with the optional times
\* present only when the buffer holds an entry.
C21_CoarseFallback ==
  [][\A k \in Attempts :
       Measures(k) =>
         LET p == probe[k]
             t == probe'[k].timings[1]
             r == probe'[k].result[1]
         IN /\ perf' = perf =>
                 /\ t.dnsLookupTime = None
                 /\ t.sslTime = None
                 /\ t.processingTime = None
                 /\ t.ttfb = p.responseStartTime - p.startFetchTime
                 /\ t.totalRequestTime = p.clock - p.startFetchTime
                 /\ t.downloadTime = p.clock - p.startReadTime
            /\ r.status = "success" =>
                 /\ r.dnsLookupTime = t.dnsLookupTime
                 /\ r.sslTime = t.sslTime
                 /\ r.processingTime = t.processingTime
            /\ t.dnsLookupTime # None => Len(perf') > 0]_vars

\* an optional field without a value; a number, or an average, is not absent
Absent(v) == DOMAIN v = {}

SingleSuccess ==
  /\ Returned
  /\ numRuns = 1
  /\ results[1].status = "success"

\* the aggregate's field is the number v
Is(field, v) == field = [n |-> v, d |-> 1]

SameRequired ==
  /\ ret[1].status = "success"
  /\ ret[1].url = results[1].url
  /\ ret[1].cacheStatus = results[1].cacheStatus
  /\ \A key \in NumericKeys \ OptionalKeys :
        Is(ret[1][key], results[1][key])

\* C22 as stated: the result of a call with numRuns = 1 and a successful
\* probe equals the probe's Success field for field, the optional fields
\* being absent in the one exactly when they are absent in the other.
C22_SingleRunIdentity ==
  SingleSuccess =>
     /\ SameRequired
     /\ \A key \in OptionalKeys :
          IF Absent(results[1][key])
            THEN Absent(ret[1][key])
            ELSE Is(ret[1][key], results[1][key][1])

\* C22 amended: the result of a call with numRuns = 1 and a successful
\* probe equals the probe's Success in status, url, cacheStatus, the five
\* required numbers and every optional field the probe has; an optional
\* field the probe left absent is 0 in the result, not absent.
C22_SingleRunZeroFill ==
  SingleSuccess =>
     /\ SameRequired
     /\ \A key \in OptionalKeys :
          IF Absent(results[1][key])
            THEN Is(ret[1][key], 0)
            ELSE Is(ret[1][key], results[1][key][1])

C22_Witness ==
  /\ SingleSuccess
  /\ results[1].dnsLookupTime = None
  /\ results[1].sslTime = None
  /\ results[1].processingTime = None
  /\ ret[1].dnsLookupTime = [n |-> 0, d |-> 1]
  /\ ret[1].ttfb = [n |-> results[1].ttfb, d |-> 1]

\* C23: in the App every test that set isRunning is followed by isRunning
\* being false again (the "Run test" button is enabled again), whichever way
\* the test ends: all urls benchmarked, no test data or a failed request for
\* them, a failed reference speed test, a failed upload; and while isRunning
\* holds no second test starts.
C23_RunningEnds ==
  /\ [][app.isRunning => ~ENABLED startTest]_vars
  /\ [](app.pc # "idle" => app.isRunning)
  /\ app.isRunning ~> ~app.isRunning
====
